---- MODULE Spec2Model ----
(***************************************************************************)
(* The plan / act / reflect loop of src/agent/graph.py as a state machine. *)
(*                                                                         *)
(* Python dicts are modelled as sets of <<key, value>> pairs with unique   *)
(* keys, so that deep equality of two dicts is equality of the two sets.   *)
(* None and the empty dict are both the empty set: the code only ever      *)
(* tests them for truthiness.                                              *)
(*                                                                         *)
(* graph.py reads and appends to state.recent_actions; the model keeps it  *)
(* as a list of the run state that starts empty, as graph.py uses it.      *)
(*                                                                         *)
(* Specifications:                                                         *)
(*   Spec       the graph under every budget 0 .. MAX_STEPS                *)
(*   FairSpec   the graph under small budgets, with the engine's progress  *)
(*   LongSpec   the graph under a budget above the size of recent_actions  *)
(*   AnyBudgetSpec  the graph under every budget -1 .. MAX_STEPS           *)
(*   SwapSpec   the graph with the tool stubs swapped for integrations     *)
(*              whose results carry further keys                           *)
(*   EntrySpec  the graph and the entry point that hands over its result   *)
(*   MemSpec    a process submitting runs to the long-term memory          *)
(*   ChatSpec   a process making oracle requests over the transport        *)
(*   ParseSpec  _extract_json applied to the oracle's response texts       *)
(*   ValidatorSpec  act_node on a repair with any tool and any arguments   *)
(*   ServerSpec  the requests to solve of src/api/server.py in one process *)
(*   OfflineSpec  the command-line run of tests/test_cli.py: offline mode, *)
(*              on AgentState with the fields src/agent/state.py declares  *)
(***************************************************************************)
EXTENDS Integers, Sequences, FiniteSets, Bags, TLC

VARIABLES
    pc,              \* the node the graph runs next: plan, act, reflect, done, failed
    scratchpad,      \* AgentState.scratchpad: the list of step dicts
    collected_data,  \* AgentState.collected_data: facts, "steps", "pending_repair"
    recent_actions,  \* state.recent_actions: the last actions, oldest first
    solved,          \* AgentState.solved
    maxSteps,        \* MAX_STEPS of this process (AGENT_MAX_STEPS)
    oracleCalls,     \* number of _chat_json calls made by the node that ran last
    toolCall,        \* the tool invocation made by the node that ran last ({} if none)
    lastPlan,        \* {plan}: the Proposal plan_node settled on, if it ran last
    lastDecision,    \* {decision}: the Decision reflect_node worked on, if it ran last
    error,           \* the exception that aborted the run, "none" otherwise
    output,          \* what solve handed to its caller, {} while the graph runs
    coll,            \* ltm.coll: the stored entries <<id, embedding, document>>
    upsertable,      \* hasattr(coll, "upsert") of the installed chromadb
    remembered,      \* the calls of remember so far: a bag of <<run_dict, outcome>>
    attempt,         \* _ollama_native_chat_json: the pass of its loop, 0 outside
    wire,            \* the oracle requests so far: the outcomes of the attempts
                     \* of each and how it ended
    content,         \* the response text handed to _extract_json
    reply,           \* how _extract_json ended on it, <<"none">> before
    disruption,      \* the goal text given to the entry point, a list of words
    OFFLINE,         \* graph.OFFLINE of this process
    environ,         \* os.environ["AGENT_OFFLINE"] of this process
    imported,        \* src.agent.graph has been imported (it is in sys.modules)
    handlers         \* the solve requests so far: what each asked for, where
                     \* its handler stands and the mode its run had

\* the variables of the graph's run
graphVars == <<pc, scratchpad, collected_data, recent_actions, solved, maxSteps,
               oracleCalls, toolCall, lastPlan, lastDecision, error>>

\* the variables the graph does not touch
\* the variables of the pure functions' inputs and results
procVars == <<content, reply, disruption, OFFLINE, environ, imported, handlers>>

envVars == <<output, coll, upsertable, remembered, attempt, wire, procVars>>

vars == <<graphVars, envVars>>

-----------------------------------------------------------------------------
(* Bounds and program constants *)

\* default of AGENT_MAX_STEPS; the model runs every budget 0..MAX_STEPS
MAX_STEPS == 5

\* recent_actions keeps at most this many entries
RECENT_CAP == 5

\* a run with this budget makes at most max(1, budget) acts and appends at
\* most three entries for each; the nodes stop at this scratchpad length, so
\* that a run that would grow without end is a run that gets stuck
HistCap(budget) == 3 * (IF budget < 1 THEN 1 ELSE budget) + 1

Budgets == 0 .. MAX_STEPS

\* the largest budget of the runs checked for termination
LiveBudget == 3

\* AGENT_MAX_STEPS of the runs long enough to overflow recent_actions
LongBudget == 6

\* the number of remember calls a process of the memory model makes
MaxSubmissions == 3

\* the number of oracle requests a process of the transport model makes
MaxCalls == 3

\* the number of words of the longest goal text
MaxGoal == 4

\* the number of solve requests a server process is sent
MaxRequests == 3

\* the length of the longest response text handed to _extract_json
MaxText == 5

-----------------------------------------------------------------------------
(* dicts *)

Keys(d) == {p[1] : p \in d}

Has(d, k) == k \in Keys(d)

Get(d, k) == (CHOOSE p \in d : p[1] = k)[2]

\* d.get(k) or dflt, for values that are dicts
GetOr(d, k, dflt) == IF Has(d, k) THEN Get(d, k) ELSE dflt

Put(d, k, v) == {p \in d : p[1] # k} \cup {<<k, v>>}

Update(d, e) == {p \in d : p[1] \notin Keys(e)} \cup e

Pop(d, k) == {p \in d : p[1] # k}

Last(s) == s[Len(s)]

-----------------------------------------------------------------------------
(* the tool registry *)

TOOLS == {"check_traffic", "get_merchant_status", "contact_recipient_via_chat",
          "suggest_safe_drop_off", "find_nearby_locker"}

\* the declared parameters of each tool, in order; none has a default
Params(tool) ==
    CASE tool = "check_traffic" -> <<"route_id">>
      [] tool = "get_merchant_status" -> <<"merchant_id">>
      [] tool = "contact_recipient_via_chat" -> <<"order_id">>
      [] tool = "suggest_safe_drop_off" -> <<"address">>
      [] tool = "find_nearby_locker" -> <<"address">>

ParamSet(tool) == {Params(tool)[i] : i \in 1 .. Len(Params(tool))}

\* mutant: the result does not name the route
check_traffic_no_route(args) ==
    {<<"status", "ok">>, <<"observation", "clear">>}

check_traffic(args) ==
    {<<"status", "ok">>, <<"route_id", Get(args, "route_id")>>,
     <<"observation", "clear">>}

get_merchant_status(args) ==
    {<<"merchant_id", Get(args, "merchant_id")>>, <<"prep_minutes", 40>>,
     <<"status", "open">>, <<"capacity", "high_wait">>}

contact_recipient_via_chat(args) ==
    {<<"order_id", Get(args, "order_id")>>, <<"delivered_instructions", TRUE>>,
     <<"message", "Please leave at concierge; I'll pick up in 10 min.">>}

suggest_safe_drop_off(args) ==
    {<<"address", Get(args, "address")>>,
     <<"suggestion", "Leave with building concierge">>, <<"risk", "low">>}

find_nearby_locker(args) ==
    {<<"address", Get(args, "address")>>, <<"locker", "Locker-19 @ 2nd St">>,
     <<"distance_m", 180>>}

\* tool(**args)
CallTool(tool, args) ==
    CASE tool = "check_traffic" -> check_traffic(args)
      [] tool = "get_merchant_status" -> get_merchant_status(args)
      [] tool = "contact_recipient_via_chat" -> contact_recipient_via_chat(args)
      [] tool = "suggest_safe_drop_off" -> suggest_safe_drop_off(args)
      [] tool = "find_nearby_locker" -> find_nearby_locker(args)

\* str.strip() on the tool names the oracle can send
Strip(s) == IF s = " suggest_safe_drop_off " THEN "suggest_safe_drop_off" ELSE s

Action(tool, args) == {<<"tool", tool>>, <<"args", args>>}

same_action(a, b) ==
    IF a = {} \/ b = {} THEN FALSE
    ELSE GetOr(a, "tool", "") = GetOr(b, "tool", "")
         /\ GetOr(a, "args", {}) = GetOr(b, "args", {})

\* mutant: every provided argument is passed on
filter_args_for_tool_all(tool, args) == args

filter_args_for_tool(tool, args) == {p \in args : p[1] \in ParamSet(tool)}

missing_required_args(tool, args) ==
    SelectSeq(Params(tool), LAMBDA name : name \notin Keys(args))

-----------------------------------------------------------------------------
(* what the oracle can answer *)

\* a registered name padded with blanks, and a name no tool has
PaddedDrop == " suggest_safe_drop_off "
UnknownName == "reroute_drone"

\* Proposals: dicts with optional keys thought, tool_name, arguments
PropEmpty == {}
PropUnknown ==
    {<<"thought", "consider traffic, merchant and recipient">>,
     <<"tool_name", UnknownName>>, <<"arguments", {}>>}
PropDrop ==
    {<<"tool_name", "suggest_safe_drop_off">>,
     <<"arguments", {<<"address", "12 Main St">>}>>}
PropLockerNoArgs == {<<"tool_name", "find_nearby_locker">>}
PropMerchant ==
    {<<"tool_name", "get_merchant_status">>,
     <<"arguments", {<<"merchant_id", "M-77">>}>>}
PropTrafficExtra ==
    {<<"tool_name", "check_traffic">>,
     <<"arguments", {<<"route_id", "R-3">>, <<"eta", "now">>}>>}

Proposals == {PropEmpty, PropUnknown, PropDrop, PropLockerNoArgs, PropMerchant,
              PropTrafficExtra}

\* repair_action values: dicts with keys tool_name, arguments
RepairDrop ==
    {<<"tool_name", PaddedDrop>>, <<"arguments", {<<"address", "12 Main St">>}>>}
RepairLockerNoArgs == {<<"tool_name", "find_nearby_locker">>, <<"arguments", {}>>}
RepairUnknown == {<<"tool_name", UnknownName>>, <<"arguments", {}>>}

\* the last recorded action, offered again as a repair
RepairOf(a) == {<<"tool_name", Get(a, "tool")>>, <<"arguments", Get(a, "args")>>}

Repairs(recent) ==
    {RepairDrop, RepairLockerNoArgs, RepairUnknown}
        \cup (IF recent = <<>> THEN {} ELSE {RepairOf(Last(recent))})

\* Decisions: dicts with optional keys stop, why, repair_action
Decisions(recent) ==
    {{<<"stop", TRUE>>, <<"why", "resolved">>},
     {<<"stop", FALSE>>, <<"why", "keep going">>}}
        \cup {{<<"stop", TRUE>>, <<"why", "fix it">>, <<"repair_action", r>>} :
                r \in Repairs(recent)}

-----------------------------------------------------------------------------
(* the coverage check of plan_node: which of the words traffic, merchant,  *)
(* recipient occur in a text                                               *)

must_consider == {"traffic", "merchant", "recipient"}

default_thoughts(tool) ==
    CASE tool = "get_merchant_status" ->
            "Confirm merchant prep time to assess delay risk on hot food."
      [] tool = "check_traffic" ->
            "Check route impact to reorder stops and avoid cascading delays."
      [] tool = "contact_recipient_via_chat" ->
            "Try to obtain delivery instructions from the recipient before safe-drop."
      [] tool = "suggest_safe_drop_off" ->
            "Propose a safe-drop (concierge) to protect food integrity and reduce delays."
      [] tool = "find_nearby_locker" ->
            "Fallback to a nearby locker if safe-drop is not possible."
      [] OTHER -> "Choose next best action per priorities."

\* the words of must_consider that occur in the string s
TextTopics(s) ==
    (IF s \in {"check_traffic", "consider traffic, merchant and recipient"}
        THEN {"traffic"} ELSE {})
    \cup (IF s \in {"get_merchant_status", "merchant_id", "Required: merchant_id",
                    "consider traffic, merchant and recipient",
                    default_thoughts("get_merchant_status")}
        THEN {"merchant"} ELSE {})
    \cup (IF s \in {"contact_recipient_via_chat", "recipient address",
                    "consider traffic, merchant and recipient",
                    default_thoughts("contact_recipient_via_chat")}
        THEN {"recipient"} ELSE {})

\* keys whose values are strings in the dicts the loop serialises
StrKeys == {"thought", "tool", "tool_name", "why", "error", "hint",
            "route_id", "merchant_id", "order_id", "address", "eta",
            "status", "observation", "capacity", "message", "suggestion",
            "risk", "locker"}

\* keys whose values are dicts
DictKeys == {"args", "arguments"}

\* the words in a dict whose values are strings, numbers, flags or lists
FlatTopics(d) ==
    UNION {TextTopics(p[1]) : p \in d}
    \cup UNION {TextTopics(p[2]) : p \in {q \in d : q[1] \in StrKeys}}

\* the words in an action, observation, proposal or repair dict
DictTopics(d) ==
    FlatTopics({p \in d : p[1] \notin DictKeys})
    \cup UNION {FlatTopics(p[2]) : p \in {q \in d : q[1] \in DictKeys}}

\* the words in a decision, whose repair_action is a dict of its own
DecisionTopics(d) ==
    FlatTopics({p \in d : p[1] # "repair_action"})
    \cup DictTopics(GetOr(d, "repair_action", {}))

\* the words in one scratchpad entry
EntryTopics(e) ==
    TextTopics(GetOr(e, "thought", ""))
    \cup DictTopics(GetOr(e, "action", {}))
    \cup DictTopics(GetOr(e, "observation", {}))
    \cup DecisionTopics(GetOr(e, "reflection", {}))

\* the words in json.dumps(state.scratchpad).lower()
HistoryTopics(sp) == UNION {EntryTopics(sp[i]) : i \in 1 .. Len(sp)}

-----------------------------------------------------------------------------
(* the nodes *)

Steps(cd) == GetOr(cd, "steps", 0)

\* mutant: nothing is dropped
Push_no_evict(recent, a) == Append(recent, a)

\* mutant: the newest entry is dropped when the list is longer than the cap
Push_pop_last(recent, a) ==
    LET r == Append(recent, a)
    IN  IF Len(r) > RECENT_CAP THEN SubSeq(r, 1, RECENT_CAP) ELSE r

\* recent_actions.append(a), then pop(0) when longer than the cap
Push(recent, a) ==
    LET r == Append(recent, a)
    IN  IF Len(r) > RECENT_CAP THEN Tail(r) ELSE r

\* the entry plan_node and reflect_node append for an action
ActionEntry(a) ==
    {<<"tool", Get(a, "tool")>>, <<"args", Get(a, "args")>>,
     <<"arguments", Get(a, "args")>>}

\* plan_node: candidate = {...} if tool_name in TOOLS else None
ProposedCandidate(plan) ==
    IF GetOr(plan, "tool_name", "") \in TOOLS
    THEN Action(Get(plan, "tool_name"), GetOr(plan, "arguments", {}))
    ELSE {}

\* mutant: the candidate is compared with the last recorded action only
IsRepeat_last_only(candidate, recent) ==
    /\ candidate # {}
    /\ recent # <<>>
    /\ same_action(candidate, Last(recent))

\* plan_node: the candidate repeats one of the last two recorded actions
IsRepeat(candidate, recent) ==
    /\ candidate # {}
    /\ \E i \in 1 .. Len(recent) :
          i > Len(recent) - 2 /\ same_action(candidate, recent[i])

\* plan_node: the answer to the re-proposal request replaces the candidate
\* when it names a registered tool
Reconsider(candidate, reconsider) ==
    IF GetOr(reconsider, "tool_name", "") \in TOOLS
    THEN Action(Get(reconsider, "tool_name"), GetOr(reconsider, "arguments", {}))
    ELSE candidate

has_merchant(cd) == Has(cd, "prep_minutes") \/ Has(cd, "merchant_id")
has_traffic(cd) == Has(cd, "route_id") /\ Has(cd, "status")
attempted_contact(cd) == Has(cd, "delivered_instructions")

\* mutant: the prerequisites only fill in for a missing candidate
EnforcePrerequisites_fallback(cd, candidate) ==
    IF candidate # {} THEN candidate
    ELSE IF ~has_merchant(cd)
        THEN Action("get_merchant_status", {<<"merchant_id", "M-77">>})
    ELSE IF ~has_traffic(cd)
        THEN Action("check_traffic", {<<"route_id", "R-3">>})
    ELSE IF ~attempted_contact(cd)
        THEN Action("contact_recipient_via_chat", {<<"order_id", "O-123">>})
    ELSE candidate

\* plan_node: merchant -> traffic -> contact before drop/locker
EnforcePrerequisites(cd, candidate) ==
    IF ~has_merchant(cd)
        THEN Action("get_merchant_status", {<<"merchant_id", "M-77">>})
    ELSE IF ~has_traffic(cd)
        THEN Action("check_traffic", {<<"route_id", "R-3">>})
    ELSE IF ~attempted_contact(cd)
        THEN Action("contact_recipient_via_chat", {<<"order_id", "O-123">>})
    ELSE candidate

\* mutant: the default names a tool the registry does not have
SafeDefault_typo(cd, candidate) ==
    IF candidate = {} \/ GetOr(candidate, "tool", "") \notin TOOLS
    THEN Action("suggest_safe_dropoff",
                {<<"address", GetOr(cd, "address", "recipient address")>>})
    ELSE candidate

\* plan_node: the safe default when there is still no valid candidate
SafeDefault(cd, candidate) ==
    IF candidate = {} \/ GetOr(candidate, "tool", "") \notin TOOLS
    THEN Action("suggest_safe_drop_off",
                {<<"address", GetOr(cd, "address", "recipient address")>>})
    ELSE candidate

\* plan_node: the coverage check asks for a revised plan, given the words
\* of must_consider that occur in the history
NeedsNudge(historyTopics, plan) ==
    \E k \in must_consider : k \notin (historyTopics \cup DictTopics(plan))

\* plan_node: what it appends for the plan it settled on (after the nudge)
\* and the answer to the re-proposal request, if one was made
PlanOutcome(plan, reconsider) ==
    LET thought0 == GetOr(plan, "thought", "")
        proposed == ProposedCandidate(plan)
        repeat == IsRepeat(proposed, recent_actions)
        adjusted == IF repeat THEN Reconsider(proposed, reconsider) ELSE proposed
        candidate == SafeDefault(collected_data,
                                 EnforcePrerequisites(collected_data, adjusted))
        thought == IF thought0 = "" THEN default_thoughts(Get(candidate, "tool"))
                   ELSE thought0
    IN  /\ scratchpad' = scratchpad \o <<{<<"thought", thought>>},
                                         {<<"action", ActionEntry(candidate)>>}>>
        /\ recent_actions' = Push(recent_actions, candidate)

\* plan_node. The oracle answers first to the planning request; when the
\* coverage check fails it is asked again and either answers nudged or the
\* call raises and the first plan is kept; when the candidate repeats a
\* recent action it is asked for a re-proposal and answers reconsider.
\* The oracle answers from the set proposals.
PlanWith(proposals) ==
    /\ pc = "plan"
    /\ Len(scratchpad) < HistCap(maxSteps)
    /\ LET historyTopics == HistoryTopics(scratchpad)
       IN  \E first \in proposals :
             LET nudge == NeedsNudge(historyTopics, first)
             IN  \E plan \in (IF nudge THEN proposals ELSE {first}) :
                   LET repeat == IsRepeat(ProposedCandidate(plan), recent_actions)
                   IN  \E reconsider \in (IF repeat THEN proposals ELSE {{}}) :
                         /\ PlanOutcome(plan, reconsider)
                         /\ lastPlan' = {plan}
                         /\ oracleCalls' = 1 + (IF nudge THEN 1 ELSE 0)
                                             + (IF repeat THEN 1 ELSE 0)
    /\ toolCall' = {}
    /\ lastDecision' = {}
    /\ pc' = "act"
    /\ UNCHANGED <<collected_data, solved, maxSteps, error>>
    /\ UNCHANGED envVars

plan_node == PlanWith(Proposals)

\* plan_node when the planning request or the re-proposal request raises
plan_node_raises ==
    /\ pc = "plan"
    /\ pc' = "failed"
    /\ error' = "OracleError"
    /\ UNCHANGED <<scratchpad, collected_data, recent_actions, solved, maxSteps,
                   oracleCalls, toolCall, lastPlan, lastDecision>>
    /\ UNCHANGED envVars

\* act_node: f"Required: {', '.join(missing)}"; every tool has one parameter
Hint(missing) ==
    CASE missing = <<"route_id">> -> "Required: route_id"
      [] missing = <<"merchant_id">> -> "Required: merchant_id"
      [] missing = <<"order_id">> -> "Required: order_id"
      [] missing = <<"address">> -> "Required: address"

\* act_node: the observation for a resolved tool and its raw arguments
Observe(tool_name, raw_args) ==
    LET filtered == filter_args_for_tool(tool_name, raw_args)
        ignored == Keys(raw_args) \ Keys(filtered)
        missing == missing_required_args(tool_name, filtered)
    IN  IF missing # <<>>
        THEN {<<"error", "missing_required_args">>, <<"tool", tool_name>>,
              <<"missing", missing>>, <<"provided_keys", Keys(raw_args)>>,
              <<"hint", Hint(missing)>>}
        ELSE IF ignored # {}
        THEN Update(CallTool(tool_name, filtered), {<<"ignored_args", ignored>>})
        ELSE CallTool(tool_name, filtered)

\* act_node: the tool invocation it makes, {} when it makes none
Invocation(tool_name, raw_args) ==
    LET filtered == filter_args_for_tool(tool_name, raw_args)
    IN  IF missing_required_args(tool_name, filtered) # <<>> THEN {}
        ELSE Action(tool_name, filtered)

\* mutant: the step counter is not moved
AfterAct_no_count(cd, obs) == Pop(Update(cd, obs), "pending_repair")

\* mutant: a soft failure returns before the step counter is moved
AfterAct_skip_on_error(cd, obs) ==
    LET merged == Update(cd, obs)
    IN  IF Has(obs, "error") THEN Pop(merged, "pending_repair")
        ELSE Pop(Put(merged, "steps", Steps(merged) + 1), "pending_repair")

\* mutant: the execution of a queued repair is not counted
AfterAct_repair_free(cd, obs) ==
    LET merged == Update(cd, obs)
    IN  IF GetOr(cd, "pending_repair", FALSE) THEN Pop(merged, "pending_repair")
        ELSE Pop(Put(merged, "steps", Steps(merged) + 1), "pending_repair")

\* mutant: the pending flag is left as it is
AfterAct_keep_flag(cd, obs) ==
    LET merged == Update(cd, obs)
    IN  Put(merged, "steps", Steps(merged) + 1)

\* act_node: facts after the observation is merged, the counter moved and
\* the pending flag cleared
AfterAct(cd, obs) ==
    LET merged == Update(cd, obs)
    IN  Pop(Put(merged, "steps", Steps(merged) + 1), "pending_repair")

\* the action of the last scratchpad entry, as act_node reads it
LastAction == GetOr(Last(scratchpad), "action", {})
LastTool == Strip(GetOr(LastAction, "tool", ""))
LastRawArgs ==
    IF GetOr(LastAction, "arguments", {}) # {} THEN Get(LastAction, "arguments")
    ELSE GetOr(LastAction, "args", {})

\* act_node, the tool (when it is invoked) returning its result with the
\* pairs of extra written over it
ActWith(extra) ==
    /\ pc = "act"
    /\ Len(scratchpad) < HistCap(maxSteps)
    /\ LastTool \in TOOLS
    /\ LET observed == Observe(LastTool, LastRawArgs)
           obs == IF Invocation(LastTool, LastRawArgs) = {} THEN observed
                  ELSE Update(observed, extra)
       IN  /\ scratchpad' = Append(scratchpad, {<<"observation", obs>>})
           /\ collected_data' = AfterAct(collected_data, obs)
    /\ toolCall' = Invocation(LastTool, LastRawArgs)
    /\ oracleCalls' = 0
    /\ lastPlan' = {}
    /\ lastDecision' = {}
    /\ pc' = "reflect"
    /\ UNCHANGED <<recent_actions, solved, maxSteps, error>>
    /\ UNCHANGED envVars

\* act_node with the tools of src/tools/logistics.py
act_node == ActWith({})

\* mutant: the step counter is moved before the tool is looked up
act_node_raises_counted ==
    /\ pc = "act"
    /\ LastTool \notin TOOLS
    /\ pc' = "failed"
    /\ error' = "KeyError"
    /\ collected_data' = Put(collected_data, "steps", Steps(collected_data) + 1)
    /\ UNCHANGED <<scratchpad, recent_actions, solved, maxSteps,
                   oracleCalls, toolCall, lastPlan, lastDecision>>
    /\ UNCHANGED envVars

\* act_node when TOOLS[tool_name] raises
act_node_raises ==
    /\ pc = "act"
    /\ LastTool \notin TOOLS
    /\ pc' = "failed"
    /\ error' = "KeyError"
    /\ UNCHANGED <<scratchpad, collected_data, recent_actions, solved, maxSteps,
                   oracleCalls, toolCall, lastPlan, lastDecision>>
    /\ UNCHANGED envVars

\* reflect_node: the decision forced when the budget is used up (the reason
\* also quotes the budget, which maxSteps holds)
ForcedDecision ==
    {<<"stop", TRUE>>, <<"why", "Reached max steps">>, <<"repair_action", {}>>}

\* mutant: a budget of zero or less means no limit
BudgetExhausted_positive(cd, budget) == budget > 0 /\ Steps(cd) >= budget

\* mutant: the budget is tested with > instead of >=
BudgetExhausted_strict(cd, budget) == Steps(cd) > budget

BudgetExhausted(cd, budget) == Steps(cd) >= budget

\* mutant: the reflection becomes a record of its own
Attach_append(sp, d) == Append(sp, {<<"reflection", d>>})

\* mutant: the last entry is replaced by the reflection
Attach_replace(sp, d) == [sp EXCEPT ![Len(sp)] = {<<"reflection", d>>}]

\* mutant: the reflection is stored on the entry before the last
Attach_on_action(sp, d) ==
    [sp EXCEPT ![Len(sp) - 1] = Put(sp[Len(sp) - 1], "reflection", d)]

\* scratchpad[-1]["reflection"] = d
Attach(sp, d) == [sp EXCEPT ![Len(sp)] = Put(sp[Len(sp)], "reflection", d)]

\* mutant: a repair naming no registered tool becomes the safe drop-off
RepairCandidate_default(repair) ==
    IF Strip(GetOr(repair, "tool_name", "")) \in TOOLS
    THEN Action(Strip(GetOr(repair, "tool_name", "")), GetOr(repair, "arguments", {}))
    ELSE Action("suggest_safe_drop_off", GetOr(repair, "arguments", {}))

\* mutant: the tool name is taken as the oracle wrote it
RepairCandidate_unstripped(repair) ==
    Action(GetOr(repair, "tool_name", ""), GetOr(repair, "arguments", {}))

RepairCandidate(repair) ==
    Action(Strip(GetOr(repair, "tool_name", "")), GetOr(repair, "arguments", {}))

\* mutant: the repair is compared with the oldest recorded action
RepairIsRepeat_oldest(repair, recent) ==
    same_action(RepairCandidate(repair),
                IF recent = <<>> THEN {} ELSE recent[1])

\* reflect_node: the repair is dropped as a repeat of the last action
RepairIsRepeat(repair, recent) ==
    same_action(RepairCandidate(repair),
                IF recent = <<>> THEN {} ELSE Last(recent))

IgnoredRepairNote ==
    {<<"stop", FALSE>>,
     <<"why", "Repair equals last action; continuing plan to avoid repeat loop.">>}

\* mutant: a run that is neither solved nor repairing ends
route_after_reflect_end_unsolved(s, cd) ==
    IF s THEN "done"
    ELSE IF GetOr(cd, "pending_repair", FALSE) THEN "act"
    ELSE "done"

\* mutant: the pending flag is not consulted
route_after_reflect_no_repair(s, cd) == IF s THEN "done" ELSE "plan"

\* mutant: the solved flag is not consulted
route_after_reflect_unsolved(s, cd) ==
    IF GetOr(cd, "pending_repair", FALSE) THEN "act" ELSE "plan"

route_after_reflect(s, cd) ==
    IF s THEN "done"
    ELSE IF GetOr(cd, "pending_repair", FALSE) THEN "act"
    ELSE "plan"

\* reflect_node, with the oracle answering answer when it is asked
reflect_node(answer) ==
    LET forced == BudgetExhausted(collected_data, maxSteps)
        decision == IF forced THEN ForcedDecision ELSE answer
        repair == GetOr(decision, "repair_action", {})
        candidate == RepairCandidate(repair)
    IN  /\ pc = "reflect"
        /\ Len(scratchpad) < HistCap(maxSteps)
        /\ oracleCalls' = IF forced THEN 0 ELSE 1
        /\ toolCall' = {}
        /\ lastPlan' = {}
        /\ lastDecision' = {decision}
        /\ IF repair # {} /\ RepairIsRepeat(repair, recent_actions)
           THEN /\ solved' = FALSE
                /\ scratchpad' = Attach(scratchpad, IgnoredRepairNote)
                /\ UNCHANGED <<collected_data, recent_actions>>
           ELSE IF repair # {}
           THEN /\ solved' = FALSE
                /\ collected_data' = Put(collected_data, "pending_repair", TRUE)
                /\ scratchpad' = Append(Attach(scratchpad, decision),
                                        {<<"thought", "repair">>,
                                         <<"action", ActionEntry(candidate)>>})
                /\ recent_actions' = Push(recent_actions, candidate)
           ELSE /\ solved' = GetOr(decision, "stop", FALSE)
                /\ scratchpad' = Attach(scratchpad, decision)
                /\ UNCHANGED <<collected_data, recent_actions>>
        /\ pc' = route_after_reflect(solved', collected_data')
        /\ UNCHANGED <<maxSteps, error>>
        /\ UNCHANGED envVars

\* reflect_node when the oracle is asked and the request raises
reflect_node_raises ==
    /\ pc = "reflect"
    /\ ~BudgetExhausted(collected_data, maxSteps)
    /\ pc' = "failed"
    /\ error' = "OracleError"
    /\ UNCHANGED <<scratchpad, collected_data, recent_actions, solved, maxSteps,
                   oracleCalls, toolCall, lastPlan, lastDecision>>
    /\ UNCHANGED envVars

-----------------------------------------------------------------------------
(* the graph *)

\* graph.invoke(AgentState(goal=...)) under each budget
GraphInit(budgets) ==
    /\ pc = "plan"
    /\ scratchpad = <<>>
    /\ collected_data = {}
    /\ recent_actions = <<>>
    /\ solved = FALSE
    /\ maxSteps \in budgets
    /\ oracleCalls = 0
    /\ toolCall = {}
    /\ lastPlan = {}
    /\ lastDecision = {}
    /\ error = "none"

\* graph.py was imported with AGENT_OFFLINE unset; no request was made
IdleServer ==
    /\ environ = "0"
    /\ imported = TRUE
    /\ handlers = <<>>

\* nothing returned, stored or requested yet
IdleIO ==
    /\ output = {}
    /\ coll = {}
    /\ remembered = EmptyBag
    /\ attempt = 0
    /\ wire = <<>>

\* and no response text at hand
IdleEnv ==
    /\ IdleIO
    /\ content = <<>>
    /\ reply = <<"none">>
    /\ disruption = <<>>
    /\ OFFLINE = FALSE
    /\ IdleServer

\* the installed chromadb has upsert
InitWith(budgets) == GraphInit(budgets) /\ IdleEnv /\ upsertable = TRUE

Init == InitWith(Budgets)

Reflect == \E answer \in Decisions(recent_actions) : reflect_node(answer)

Next ==
    \/ plan_node
    \/ plan_node_raises
    \/ act_node
    \/ act_node_raises
    \/ Reflect
    \/ reflect_node_raises

Spec == Init /\ [][Next]_vars

\* the runs with a budget of at most LiveBudget
InitLive == Init /\ maxSteps <= LiveBudget

\* graph.invoke runs the next node whenever there is one
FairSpec == InitLive /\ [][Next]_vars /\ WF_vars(Next)

\* AGENT_MAX_STEPS is any integer: the runs of Spec and those with a
\* negative budget
AnyBudgets == -1 .. MAX_STEPS

AnyBudgetInit == InitWith(AnyBudgets)

AnyBudgetSpec == AnyBudgetInit /\ [][Next]_vars

\* runs with a budget above RECENT_CAP, in which the oracle answers from a
\* few proposals and decisions
LongProposals == {PropDrop, PropLockerNoArgs, PropTrafficExtra}

LongDecisions ==
    {{<<"stop", TRUE>>, <<"why", "resolved">>},
     {<<"stop", FALSE>>, <<"why", "keep going">>},
     {<<"stop", FALSE>>, <<"why", "fix it">>, <<"repair_action", RepairDrop>>},
     {<<"stop", FALSE>>, <<"why", "fix it">>, <<"repair_action", RepairLockerNoArgs>>},
     {<<"stop", FALSE>>, <<"why", "fix it">>, <<"repair_action", RepairUnknown>>}}

LongInit == InitWith({LongBudget})

LongPlan == PlanWith(LongProposals)

LongReflect == \E answer \in LongDecisions : reflect_node(answer)

LongNext ==
    \/ LongPlan
    \/ plan_node_raises
    \/ act_node
    \/ act_node_raises
    \/ LongReflect
    \/ reflect_node_raises

LongSpec == LongInit /\ [][LongNext]_vars

\* runs in which the tools are integrations with the stubs' contracts, whose
\* results hold the stubs' keys and any of these
ExtraFacts == {<<"steps", 0>>, <<"steps", 7>>, <<"pending_repair", TRUE>>}

ExtraResults ==
    {e \in SUBSET ExtraFacts : Cardinality(Keys(e)) = Cardinality(e)}

SwapBudget == 3

SwapInit == InitWith({SwapBudget})

SwapPlan == PlanWith(LongProposals)

SwapAct == \E extra \in ExtraResults : ActWith(extra)

SwapReflect == \E answer \in LongDecisions : reflect_node(answer)

SwapNext ==
    \/ SwapPlan
    \/ plan_node_raises
    \/ SwapAct
    \/ act_node_raises
    \/ SwapReflect
    \/ reflect_node_raises

SwapSpec == SwapInit /\ [][SwapNext]_vars

-----------------------------------------------------------------------------
(* the long-term memory of src/mem/ltm.py *)

\* the embeddings the embedding service can answer with
Vectors == {"v1", "v2"}

\* scratch[-3:]
key_steps(scratch) ==
    SubSeq(scratch, IF Len(scratch) > 3 THEN Len(scratch) - 2 ELSE 1, Len(scratch))

\* remember: summary_obj; json.dumps(..., sort_keys=True) writes equal
\* mappings as equal texts
summary_obj(run_dict) ==
    LET scratch == GetOr(run_dict, "scratchpad", <<>>)
    IN  {<<"problem", GetOr(run_dict, "goal", "")>>,
         <<"key_steps", key_steps(scratch)>>,
         <<"resolution", IF scratch = <<>> THEN {} ELSE Last(scratch)>>}

\* mutant: the id also counts the calls made so far
stable_id_counted(text) == <<"sha1", text, BagCardinality(remembered)>>

\* _stable_id: the SHA-1 digest, one per text
stable_id(text) == <<"sha1", text>>

Ids(c) == {e[1] : e \in c}

\* coll.upsert(ids=[eid], embeddings=[vec], documents=[summary])
upsert(c, eid, vec, summary) ==
    {e \in c : e[1] # eid} \cup {<<eid, vec, summary>>}

\* coll.add(...) with the duplicate guard: an id already stored is refused
add(c, eid, vec, summary) ==
    IF eid \in Ids(c) THEN c ELSE c \cup {<<eid, vec, summary>>}

\* remember, with embed answering vec: the collection afterwards
remember(c, run_dict, vec) ==
    LET summary == summary_obj(run_dict)
        eid == stable_id(summary)
    IN  IF upsertable THEN upsert(c, eid, vec, summary)
        ELSE add(c, eid, vec, summary)

\* the run dicts handed to remember: the final states of runs that stopped
\* after the merchant lookup or after the traffic check, for two goals, and
\* a dict without a scratchpad
MemGoals == {"Recipient unavailable at 123 Main St; valuable parcel",
             "Merchant is overloaded; hot food is waiting"}

MemStop == {<<"stop", TRUE>>, <<"why", "resolved">>}
MemContinue == {<<"stop", FALSE>>, <<"why", "keep going">>}

MemCycle(thought, tool, args, reflection) ==
    <<{<<"thought", thought>>},
      {<<"action", ActionEntry(Action(tool, args))>>},
      {<<"observation", CallTool(tool, args)>>, <<"reflection", reflection>>}>>

MemMerchant(thought, reflection) ==
    MemCycle(thought, "get_merchant_status", {<<"merchant_id", "M-77">>}, reflection)

MemTraffic ==
    MemCycle(default_thoughts("check_traffic"), "check_traffic",
             {<<"route_id", "R-3">>}, MemStop)

\* the last two scratchpads differ in their first entry only
MemScratchpads ==
    {MemMerchant(default_thoughts("get_merchant_status"), MemStop),
     MemMerchant(default_thoughts("get_merchant_status"), MemContinue) \o MemTraffic,
     MemMerchant("consider traffic, merchant and recipient", MemContinue) \o MemTraffic}

Runs ==
    {{<<"goal", g>>, <<"scratchpad", sp>>, <<"collected_data", {}>>, <<"solved", TRUE>>} :
        g \in MemGoals, sp \in MemScratchpads}
    \cup {{<<"goal", "Merchant is overloaded; hot food is waiting">>}}

\* remember(run_dict) with the embedding service answering
remember_stores ==
    /\ BagCardinality(remembered) < MaxSubmissions
    /\ \E run_dict \in Runs, vec \in Vectors :
          /\ coll' = remember(coll, run_dict, vec)
          /\ remembered' = remembered (+) SetToBag({<<run_dict, "stored">>})
    /\ UNCHANGED <<graphVars, output, upsertable, attempt, wire, procVars>>

\* remember(run_dict) when embed raises
remember_raises ==
    /\ BagCardinality(remembered) < MaxSubmissions
    /\ \E run_dict \in Runs :
          remembered' = remembered (+) SetToBag({<<run_dict, "failed">>})
    /\ UNCHANGED <<graphVars, output, coll, upsertable, attempt, wire, procVars>>

\* a process that only submits runs, with either kind of chromadb
MemInit == GraphInit({MAX_STEPS}) /\ IdleEnv /\ upsertable \in BOOLEAN

MemNext == remember_stores \/ remember_raises

MemSpec == MemInit /\ [][MemNext]_vars

-----------------------------------------------------------------------------
(* the oracle transport: _chat_json and _ollama_native_chat_json of        *)
(* src/agent/graph.py, with AGENT_OFFLINE off                              *)

\* how one attempt ends: the streamed content parses ("ok"), the read times
\* out, raise_for_status raises, _extract_json raises on the content, or
\* the connection fails
Outcomes == {"ok", "ReadTimeout", "HTTPStatusError", "ValueError", "ConnectError"}

\* mutant: every failure of the first attempt is tried again
Retries_any_failure(att, outcome) == att = 1 /\ outcome # "ok"

\* except httpx.ReadTimeout: if attempt == 1: continue
Retries(att, outcome) == att = 1 /\ outcome = "ReadTimeout"

\* how the request stands after an attempt: returned, still pending, or
\* raised (the class of the exception)
Ending(att, outcome) ==
    IF outcome = "ok" THEN "returned"
    ELSE IF Retries(att, outcome) THEN "pending"
    ELSE outcome

\* _chat_json is called and enters the loop of _ollama_native_chat_json
chat_json ==
    /\ attempt = 0
    /\ Len(wire) < MaxCalls
    /\ attempt' = 1
    /\ wire' = Append(wire, [attempts |-> <<>>, result |-> "pending"])
    /\ UNCHANGED <<graphVars, output, coll, upsertable, remembered, procVars>>

\* one pass of for attempt in (1, 2)
ollama_native_chat_json ==
    /\ attempt \in {1, 2}
    /\ \E outcome \in Outcomes :
          LET ending == Ending(attempt, outcome)
          IN  /\ wire' = [wire EXCEPT ![Len(wire)] =
                            [attempts |-> Append(Last(wire).attempts, outcome),
                             result |-> ending]]
              /\ attempt' = IF ending = "pending" THEN attempt + 1 ELSE 0
    /\ UNCHANGED <<graphVars, output, coll, upsertable, remembered, procVars>>

ChatInit == InitWith({MAX_STEPS})

ChatNext == chat_json \/ ollama_native_chat_json

ChatSpec == ChatInit /\ [][ChatNext]_vars

-----------------------------------------------------------------------------
(* the entry points: solve of src/cli_react.py and of src/api/server.py    *)

\* the goal of the run; the graph only forwards it to the oracle and recall
goal == "Recipient unavailable at 123 Main St; valuable parcel"

\* result.model_dump(): the fields of AgentState
model_dump ==
    {<<"goal", goal>>, <<"scratchpad", scratchpad>>,
     <<"collected_data", collected_data>>, <<"solved", solved>>}

\* str(exc): a KeyError prints the repr of the missing key
ErrorText(exc) ==
    IF exc = "KeyError" THEN "'reroute_drone'"
    ELSE IF exc = "AttributeError"
    THEN "'AgentState' object has no attribute 'recent_actions'"
    ELSE "oracle request failed"

\* mutant: the error is reported together with the state of the run
CliError_with_state(exc) == model_dump \cup {<<"error", ErrorText(exc)>>, <<"type", exc>>}

\* cli_react.solve: what is written to stderr before exit code 1
CliError(exc) == {<<"error", ErrorText(exc)>>, <<"type", exc>>}

\* server.solve: HTTPException(status_code=500, detail=str(exc))
ApiError(exc) == {<<"status_code", 500>>, <<"detail", ErrorText(exc)>>}

\* graph.invoke returned: a solved run is handed to remember, whose failure
\* (embed raises) is swallowed, and the dumped state is the result
solve_returns ==
    /\ pc = "done"
    /\ output = {}
    /\ output' = model_dump
    /\ IF solved
       THEN \/ \E vec \in Vectors :
                  /\ coll' = remember(coll, model_dump, vec)
                  /\ remembered' = remembered (+) SetToBag({<<model_dump, "stored">>})
            \/ /\ coll' = coll
               /\ remembered' = remembered (+) SetToBag({<<model_dump, "failed">>})
       ELSE UNCHANGED <<coll, remembered>>
    /\ UNCHANGED <<graphVars, upsertable, attempt, wire, procVars>>

\* graph.invoke raised
solve_raises ==
    /\ pc = "failed"
    /\ output = {}
    /\ output' \in {CliError(error), ApiError(error)}
    /\ UNCHANGED <<graphVars, coll, upsertable, remembered, attempt, wire, procVars>>

EntryNext == Next \/ solve_returns \/ solve_raises

EntrySpec == Init /\ [][EntryNext]_vars

-----------------------------------------------------------------------------
(* act_node on every registered tool and every argument mapping: the       *)
(* first reflect_node of a run has queued a repair with that tool and      *)
(* those arguments                                                         *)

\* the argument mappings: every set of keys among the declared parameters
\* and one undeclared key, each key with one value
ArgValues ==
    {<<"route_id", "R-9">>, <<"merchant_id", "M-9">>, <<"order_id", "O-9">>,
     <<"address", "9 Side St">>, <<"eta", "soon">>}

ArgMappings == SUBSET ArgValues

MerchantAction == Action("get_merchant_status", {<<"merchant_id", "M-77">>})

\* the decision that queued the repair
RepairDecision(tool, args) ==
    {<<"stop", FALSE>>, <<"why", "fix it">>,
     <<"repair_action", {<<"tool_name", tool>>, <<"arguments", args>>}>>}

\* the run after plan (the gate chose the merchant lookup), act and a
\* reflect that queued the repair
ValidatorInit ==
    /\ IdleEnv
    /\ upsertable = TRUE
    /\ pc = "act"
    /\ maxSteps = MAX_STEPS
    /\ solved = FALSE
    /\ error = "none"
    /\ oracleCalls = 1
    /\ toolCall = {}
    /\ lastPlan = {}
    /\ collected_data =
          Put(AfterAct({}, get_merchant_status({<<"merchant_id", "M-77">>})),
              "pending_repair", TRUE)
    /\ \E tool \in TOOLS, args \in ArgMappings :
          /\ lastDecision = {RepairDecision(tool, args)}
          /\ recent_actions = <<MerchantAction, Action(tool, args)>>
          /\ scratchpad =
                <<{<<"thought", default_thoughts("get_merchant_status")>>},
                  {<<"action", ActionEntry(MerchantAction)>>},
                  {<<"observation", get_merchant_status({<<"merchant_id", "M-77">>})>>,
                   <<"reflection", RepairDecision(tool, args)>>},
                  {<<"thought", "repair">>,
                   <<"action", ActionEntry(Action(tool, args))>>}>>

ValidatorNext == act_node

ValidatorSpec == ValidatorInit /\ [][ValidatorNext]_vars

-----------------------------------------------------------------------------
(* solve of src/api/server.py: the requests of one server process, whose   *)
(* handlers run on the threads of the server's pool                        *)

\* SolveReq.offline: true, false or left out
OfflineOptions == {"1", "0", "none"}

\* graph.py line 22: OFFLINE as the module computes it from the environment
OfflineFlag(value) == value \notin {"0", "false", "False", "no", ""}

\* solve, lines 102-112: the handler of a new request writes the request's
\* overrides to os.environ
solve_environ ==
    /\ Len(handlers) < MaxRequests
    /\ \E option \in OfflineOptions :
          /\ environ' = IF option = "none" THEN environ ELSE option
          /\ handlers' = Append(handlers,
                                [offline |-> option, at |-> "invoke", ran |-> "-"])
    /\ UNCHANGED <<graphVars, output, coll, upsertable, remembered, attempt, wire,
                   content, reply, disruption, OFFLINE, imported>>

\* solve, lines 114-117: the import runs graph.py the first time only, which
\* reads the environment as it is then; the graph's oracle calls read OFFLINE
solve_invoke(r) ==
    /\ handlers[r].at = "invoke"
    /\ imported' = TRUE
    /\ OFFLINE' = IF imported THEN OFFLINE ELSE OfflineFlag(environ)
    /\ handlers' = [handlers EXCEPT ![r] =
                       [offline |-> handlers[r].offline, at |-> "done",
                        ran |-> IF OFFLINE' THEN "offline" ELSE "online"]]
    /\ UNCHANGED <<graphVars, output, coll, upsertable, remembered, attempt, wire,
                   content, reply, disruption, environ>>

\* a server process started with AGENT_OFFLINE unset, before its first request
ServerInit ==
    /\ GraphInit({MAX_STEPS})
    /\ IdleIO
    /\ upsertable = TRUE
    /\ content = <<>>
    /\ reply = <<"none">>
    /\ disruption = <<>>
    /\ OFFLINE = FALSE
    /\ environ = "0"
    /\ imported = FALSE
    /\ handlers = <<>>

Invoke == \E r \in 1 .. Len(handlers) : solve_invoke(r)

ServerNext == solve_environ \/ Invoke

ServerSpec == ServerInit /\ [][ServerNext]_vars

-----------------------------------------------------------------------------
(* offline mode: _chat_json with AGENT_OFFLINE set, in the run that        *)
(* tests/test_cli.py starts through src/cli_react.py                       *)

\* the fields of AgentState
AgentStateFields == {"goal", "scratchpad", "collected_data", "solved"}

\* goal texts: lists of words, two of which are the marks _chat_json looks
\* for in a prompt
GoalWords == {"parcel", "\"stop\"", "repair_action"}

Disruptions == UNION {[1 .. n -> GoalWords] : n \in 0 .. MaxGoal}

OfflineDecision == {<<"stop", TRUE>>, <<"why", "offline">>}

OfflinePlan ==
    {<<"thought", "offline plan">>, <<"tool_name", "suggest_safe_drop_off">>,
     <<"arguments", {<<"address", "test">>}>>}

\* the prompt holds "stop" in quotes or repair_action: the goal text does,
\* or the history holds a reflection, which json.dumps writes with its keys
\* in quotes
ReflectionStyle(goalText, sp) ==
    \/ \E i \in 1 .. Len(goalText) : goalText[i] \in {"\"stop\"", "repair_action"}
    \/ \E i \in 1 .. Len(sp) :
          Has(GetOr(sp[i], "reflection", {}), "stop")
          \/ Has(GetOr(sp[i], "reflection", {}), "repair_action")

\* _chat_json with OFFLINE set, asked with the planning prompt, the nudge
\* (which sends the same user message) or the re-proposal prompt
chat_json_offline(goalText, sp) ==
    IF ReflectionStyle(goalText, sp) THEN OfflineDecision ELSE OfflinePlan

\* plan_node in offline mode on a state without recent_actions: the oracle
\* is answered locally, once for the plan and once for the nudge, and the
\* read of state.recent_actions raises
offline_plan_node ==
    /\ pc = "plan"
    /\ OFFLINE
    /\ "recent_actions" \notin AgentStateFields
    /\ LET first == chat_json_offline(disruption, scratchpad)
           nudge == NeedsNudge(HistoryTopics(scratchpad), first)
       IN  /\ oracleCalls' = 1 + (IF nudge THEN 1 ELSE 0)
           /\ lastPlan' = {chat_json_offline(disruption, scratchpad)}
    /\ pc' = "failed"
    /\ error' = "AttributeError"
    /\ UNCHANGED <<scratchpad, collected_data, recent_actions, solved, maxSteps,
                   toolCall, lastDecision>>
    /\ UNCHANGED envVars

\* python -m src.cli_react <goal> with AGENT_OFFLINE=1, for every goal text
OfflineInit ==
    /\ GraphInit({MAX_STEPS})
    /\ IdleIO
    /\ upsertable = TRUE
    /\ content = <<>>
    /\ reply = <<"none">>
    /\ disruption \in Disruptions
    /\ OFFLINE = TRUE
    /\ environ = "1"
    /\ imported = TRUE
    /\ handlers = <<>>

OfflineNext == offline_plan_node \/ solve_raises

\* the run goes on until the command has printed its answer
OfflineSpec == OfflineInit /\ [][OfflineNext]_vars /\ WF_vars(OfflineNext)

-----------------------------------------------------------------------------
(* _extract_json of src/agent/graph.py (the same function in               *)
(* src/agent/mva.py). A text is a sequence of lexical units: the braces,   *)
(* "k" for a member key with its colon, "7" for a number, "x" for a word   *)
(* of prose. JSON texts over these units are 7, {}, {k7}, {k{}}, ...       *)

Units == {"{", "}", "k", "7", "x"}

Texts == UNION {[1 .. n -> Units] : n \in 0 .. MaxText}

Invalid == <<"invalid">>

\* json.loads(s): the value s denotes, Invalid when it raises
RECURSIVE loads(_)
loads(s) ==
    IF s = <<"7">> THEN <<"int", 7>>
    ELSE IF Len(s) >= 2 /\ s[1] = "{" /\ s[Len(s)] = "}"
    THEN IF Len(s) = 2 THEN <<"dict", {}>>
         ELSE IF Len(s) >= 4 /\ s[2] = "k"
         THEN LET v == loads(SubSeq(s, 3, Len(s) - 1))
              IN  IF v = Invalid THEN Invalid ELSE <<"dict", {<<"k", v>>}>>
         ELSE Invalid
    ELSE Invalid

Positions(s, u) == {i \in 1 .. Len(s) : s[i] = u}

Min(S) == CHOOSE i \in S : \A j \in S : i <= j
Max(S) == CHOOSE i \in S : \A j \in S : j <= i

\* re.search(r"\{[\s\S]*\}", s): the leftmost opening brace and, the star
\* being greedy, the last closing brace after it; <<>> when nothing matches
search(s) ==
    IF Positions(s, "{") = {} THEN <<>>
    ELSE LET i == Min(Positions(s, "{"))
             closing == {j \in Positions(s, "}") : j > i}
         IN  IF closing = {} THEN <<>> ELSE <<i, Max(closing)>>

\* _extract_json(text): the value returned or the exception raised
\* (json.JSONDecodeError is a ValueError whose doc is the text it was given)
extract_json(text) ==
    IF loads(text) # Invalid THEN <<"returned", loads(text)>>
    ELSE LET m == search(text)
         IN  IF m = <<>> THEN <<"raised", "ValueError", text>>
             ELSE LET group == SubSeq(text, m[1], m[2])
                  IN  IF loads(group) # Invalid THEN <<"returned", loads(group)>>
                      ELSE <<"raised", "JSONDecodeError", group>>

\* _extract_json is applied to the response text
extract ==
    /\ reply = <<"none">>
    /\ reply' = extract_json(content)
    /\ UNCHANGED <<graphVars, output, coll, upsertable, remembered, attempt,
                   wire, content, disruption, OFFLINE, environ, imported,
                   handlers>>

\* every response text of at most MaxText units
ParseInit ==
    /\ GraphInit({MAX_STEPS})
    /\ IdleIO
    /\ upsertable = TRUE
    /\ content \in Texts
    /\ reply = <<"none">>
    /\ disruption = <<>>
    /\ OFFLINE = FALSE
    /\ IdleServer

ParseNext == extract

ParseSpec == ParseInit /\ [][ParseNext]_vars

-----------------------------------------------------------------------------
(* helpers of the properties *)

\* a node ran to completion in this step
Completed(node) == pc = node /\ pc' # pc /\ pc' # "failed"

PendingRepair(cd) == GetOr(cd, "pending_repair", FALSE)

\* the scratchpad never reaches the length at which the model stops a run
HistWithinBound == pc \in {"plan", "act", "reflect"} => Len(scratchpad) < HistCap(maxSteps)

\* the scratchpad holds an entry that reflect_node appended for a repair
HasRepairEntry ==
    \E i \in 1 .. Len(scratchpad) : GetOr(scratchpad[i], "thought", "") = "repair"

\* the reflection stored on the last scratchpad entry, {} if none
LastReflection ==
    IF scratchpad = <<>> THEN {} ELSE GetOr(Last(scratchpad), "reflection", {})

-----------------------------------------------------------------------------
(* C1: the run starts in plan; a completed plan is followed by act, a      *)
(* completed act by reflect, a completed reflect by done when solved is    *)
(* true, else by act when pending_repair is set, else by plan; nothing     *)
(* runs after done (nor after a node raised).                              *)
C1_PhaseStep ==
    /\ pc = "plan" => pc' \in {"act", "failed"}
    /\ pc = "act" => pc' \in {"reflect", "failed"}
    /\ pc = "reflect" =>
          \/ pc' = "failed"
          \/ pc' = (IF solved' THEN "done"
                    ELSE IF PendingRepair(collected_data') THEN "act"
                    ELSE "plan")
    /\ pc \notin {"done", "failed"}

C1_PhaseGraph == pc = "plan" /\ [][C1_PhaseStep]_vars

\* a run that went plan, act, reflect, act (repair), reflect, plan, ... done
C1_Witness ==
    /\ pc = "done"
    /\ HasRepairEntry
    /\ Len(recent_actions) >= 3

-----------------------------------------------------------------------------
(* C2: for every budget >= 1, a reflect_node that starts with steps >=     *)
(* budget does not ask the oracle and stores the forced decision: stop,    *)
(* no repair action, a reason naming the budget; the run ends.             *)
C2_BudgetStep ==
    (Completed("reflect") /\ maxSteps >= 1 /\ Steps(collected_data) >= maxSteps)
        => /\ oracleCalls' = 0
           /\ Get(LastReflection', "stop") = TRUE
           /\ Get(LastReflection', "repair_action") = {}
           /\ Get(LastReflection', "why") = "Reached max steps"
           /\ Len(scratchpad') = Len(scratchpad)
           /\ recent_actions' = recent_actions
           /\ solved'
           /\ pc' = "done"

C2_BudgetForcesStop == [][C2_BudgetStep]_vars

\* the third act of a run with budget 3 was followed by the forced stop
C2_Witness ==
    /\ pc = "done"
    /\ maxSteps = 3
    /\ Steps(collected_data) = 3
    /\ oracleCalls = 0
    /\ Get(LastReflection, "why") = "Reached max steps"

-----------------------------------------------------------------------------
-----------------------------------------------------------------------------
(* C4: a plan_node that runs while a prerequisite fact is missing appends  *)
(* the action the facts fix, whatever the oracle answered: merchant status *)
(* without prep_minutes and merchant_id, else traffic without route_id or  *)
(* status, else recipient contact without delivered_instructions.          *)
C4_Expected(cd) ==
    IF ~(Has(cd, "prep_minutes") \/ Has(cd, "merchant_id"))
        THEN {<<"tool", "get_merchant_status">>,
              <<"args", {<<"merchant_id", "M-77">>}>>}
    ELSE IF ~(Has(cd, "route_id") /\ Has(cd, "status"))
        THEN {<<"tool", "check_traffic">>, <<"args", {<<"route_id", "R-3">>}>>}
    ELSE IF ~Has(cd, "delivered_instructions")
        THEN {<<"tool", "contact_recipient_via_chat">>,
              <<"args", {<<"order_id", "O-123">>}>>}
    ELSE {}

C4_GateStep ==
    (Completed("plan") /\ C4_Expected(collected_data) # {})
        => /\ Last(recent_actions') = C4_Expected(collected_data)
           /\ Get(Last(scratchpad'), "action")
                 = C4_Expected(collected_data) \cup
                     {<<"arguments", Get(C4_Expected(collected_data), "args")>>}

C4_GateOverridesOracle == [][C4_GateStep]_vars

\* the oracle proposed a drop-off on empty facts and merchant status was chosen
C4_Witness ==
    /\ pc = "act"
    /\ collected_data = {}
    /\ lastPlan = {PropDrop}
    /\ Get(Last(recent_actions), "tool") = "get_merchant_status"

-----------------------------------------------------------------------------
(* C5, as claimed: act_node never invokes the drop-off or the locker tool  *)
(* while facts lack the merchant, the route or the contact sentinel.       *)
TerminalTools == {"suggest_safe_drop_off", "find_nearby_locker"}

C5_TerminalStep ==
    (Completed("act") /\ toolCall' # {} /\ Get(toolCall', "tool") \in TerminalTools)
        => C4_Expected(collected_data) = {}

C5_Original == [][C5_TerminalStep]_vars

-----------------------------------------------------------------------------
(* C6, as claimed: when the oracle proposes an action that recent_actions  *)
(* already holds, the action plan_node appends differs from the action the *)
(* previous plan_node appended (five tools are registered, so another tool *)
(* always exists).                                                         *)
PlanEntries(sp) ==
    {i \in 1 .. Len(sp) : Has(sp[i], "action") /\ ~Has(sp[i], "thought")}

\* the action entry of the last plan_node, {} if none ran
PrevPlanAction(sp) ==
    IF PlanEntries(sp) = {} THEN {}
    ELSE Get(sp[CHOOSE i \in PlanEntries(sp) : \A j \in PlanEntries(sp) : j <= i],
             "action")

InRecent(a, recent) == \E i \in 1 .. Len(recent) : recent[i] = a

\* the oracle proposed a registered tool with arguments that make an action
\* recent_actions already holds
ProposedIsRecent(p, recent) ==
    /\ Has(p, "tool_name")
    /\ Get(p, "tool_name") \in TOOLS
    /\ InRecent(Action(Get(p, "tool_name"), GetOr(p, "arguments", {})), recent)

C6_RepeatStep ==
    \A p \in lastPlan' :
        (Completed("plan") /\ PrevPlanAction(scratchpad) # {}
         /\ ProposedIsRecent(p, recent_actions))
            => Get(Last(scratchpad'), "action") # PrevPlanAction(scratchpad)

C6_Original == [][C6_RepeatStep]_vars

-----------------------------------------------------------------------------
(* C7: when the decision carries a repair whose stripped tool name and     *)
(* arguments equal the last recorded action, reflect_node appends nothing, *)
(* records nothing in recent_actions, leaves solved and pending_repair     *)
(* false, stores the override note as the reflection and routes to plan,   *)
(* also when the decision said stop.                                       *)
C7_EqualsLast(d) ==
    /\ GetOr(d, "repair_action", {}) # {}
    /\ recent_actions # <<>>
    /\ Strip(GetOr(Get(d, "repair_action"), "tool_name", ""))
          = Get(Last(recent_actions), "tool")
    /\ GetOr(Get(d, "repair_action"), "arguments", {})
          = Get(Last(recent_actions), "args")

C7_DiscardStep ==
    \A d \in lastDecision' :
        (Completed("reflect") /\ C7_EqualsLast(d))
            => /\ Len(scratchpad') = Len(scratchpad)
               /\ \A i \in 1 .. Len(scratchpad) - 1 : scratchpad'[i] = scratchpad[i]
               /\ Pop(Last(scratchpad'), "reflection") = Pop(Last(scratchpad), "reflection")
               /\ LastReflection'
                     = {<<"stop", FALSE>>,
                        <<"why", "Repair equals last action; continuing plan to avoid repeat loop.">>}
               /\ recent_actions' = recent_actions
               /\ collected_data' = collected_data
               /\ ~PendingRepair(collected_data')
               /\ solved' = FALSE
               /\ pc' = "plan"

C7_RepeatedRepairDiscarded == [][C7_DiscardStep]_vars

\* a decision with stop = true and the last action as repair was overridden
C7_Witness ==
    /\ pc = "plan"
    /\ \E d \in lastDecision :
          /\ Get(d, "stop") = TRUE
          /\ GetOr(d, "repair_action", {}) = RepairOf(Last(recent_actions))
    /\ Get(LastReflection, "stop") = FALSE
    /\ Len(recent_actions) >= 2

-----------------------------------------------------------------------------
(* C8: when the action act_node reads names a registered tool and its      *)
(* arguments lack a declared parameter, act_node does not raise and does   *)
(* not invoke the tool; it appends the observation {error, tool, missing,  *)
(* provided_keys, hint} whose missing list holds exactly the absent        *)
(* parameters, adds one to steps and hands over to reflect.                *)
C8_Absent == ParamSet(LastTool) \ Keys(LastRawArgs)

C8_MissingArgsStep ==
    (pc = "act" /\ pc' # pc /\ LastTool \in TOOLS /\ C8_Absent # {})
        => LET obs == Get(Last(scratchpad'), "observation")
           IN  /\ pc' = "reflect"
               /\ error' = "none"
               /\ toolCall' = {}
               /\ Len(scratchpad') = Len(scratchpad) + 1
               /\ Keys(obs) = {"error", "tool", "missing", "provided_keys", "hint"}
               /\ Get(obs, "error") = "missing_required_args"
               /\ Get(obs, "tool") = LastTool
               /\ Len(Get(obs, "missing")) = Cardinality(C8_Absent)
               /\ {Get(obs, "missing")[i] : i \in 1 .. Len(Get(obs, "missing"))}
                     = C8_Absent
               /\ Get(obs, "provided_keys") = Keys(LastRawArgs)
               /\ Steps(collected_data') = Steps(collected_data) + 1

C8_MissingArgsSoftFail == [][C8_MissingArgsStep]_vars

\* the locker tool was asked for with an empty mapping
C8_Witness ==
    /\ pc = "reflect"
    /\ toolCall = {}
    /\ Has(Last(scratchpad), "observation")
    /\ GetOr(Get(Last(scratchpad), "observation"), "missing", <<>>) = <<"address">>
    /\ Steps(collected_data) = 2

-----------------------------------------------------------------------------
(* C9, as claimed: a plan_node whose proposal names a tool outside the     *)
(* registry does not complete with some other action, and an act_node      *)
(* that reads such a tool fails the run.                                   *)
NamesUnknownTool(d) ==
    Has(d, "tool_name") /\ Strip(Get(d, "tool_name")) \notin TOOLS

C9_ActFailsStep ==
    (pc = "act" /\ pc' # pc /\ LastTool \notin TOOLS)
        => /\ pc' = "failed"
           /\ error' = "KeyError"
           /\ UNCHANGED <<scratchpad, collected_data, recent_actions, solved>>

C9_PlanSubstitutesStep ==
    \A p \in lastPlan' :
        (pc = "plan" /\ pc' # pc /\ NamesUnknownTool(p))
            => /\ pc' = "act"
               /\ Last(recent_actions')
                     = (IF C4_Expected(collected_data) # {}
                        THEN C4_Expected(collected_data)
                        ELSE {<<"tool", "suggest_safe_drop_off">>,
                              <<"args", {<<"address",
                                           GetOr(collected_data, "address",
                                                 "recipient address")>>}>>})

C9_RepairKeptStep ==
    \A d \in lastDecision' :
        (Completed("reflect") /\ NamesUnknownTool(GetOr(d, "repair_action", {})))
            => /\ pc' = "act"
               /\ Get(Get(Last(scratchpad'), "action"), "tool")
                     = Strip(Get(Get(d, "repair_action"), "tool_name"))

-----------------------------------------------------------------------------
(* C10: every action plan_node appends names a registered tool, whatever   *)
(* the oracle proposed, and the act_node that runs right after a plan_node *)
(* does not raise.                                                         *)
C10_PlanStep ==
    /\ Completed("plan") =>
          /\ Get(Get(Last(scratchpad'), "action"), "tool") \in TOOLS
          /\ Get(Last(recent_actions'), "tool") \in TOOLS
    /\ (pc = "act" /\ pc' # pc /\ lastPlan # {}) => pc' = "reflect"

C10_PlanNamesRegisteredTool == [][C10_PlanStep]_vars

\* an unknown tool was proposed with all prerequisites met: the safe default
C10_Witness ==
    /\ pc = "act"
    /\ lastPlan = {PropUnknown}
    /\ C4_Expected(collected_data) = {}
    /\ Last(recent_actions)
          = {<<"tool", "suggest_safe_drop_off">>,
             <<"args", {<<"address", "recipient address">>}>>}

-----------------------------------------------------------------------------
(* C11: a node that fails (the oracle request of plan_node or reflect_node *)
(* raises, or act_node cannot resolve the tool) leaves the scratchpad, the *)
(* facts with the step counter and the pending flag, recent_actions and    *)
(* solved as they were when the node started.                              *)
C11_FailStep ==
    pc' = "failed" =>
        /\ scratchpad' = scratchpad
        /\ collected_data' = collected_data
        /\ Steps(collected_data') = Steps(collected_data)
        /\ PendingRepair(collected_data') = PendingRepair(collected_data)
        /\ recent_actions' = recent_actions
        /\ solved' = solved

C11_FailedNodeKeepsState == [][C11_FailStep]_vars

\* act_node failed on a queued repair after two completed acts: the flag,
\* the counter and the repair entry are as reflect_node left them
C11_Witness ==
    /\ pc = "failed"
    /\ error = "KeyError"
    /\ PendingRepair(collected_data)
    /\ Steps(collected_data) = 2
    /\ GetOr(Last(scratchpad), "thought", "") = "repair"
    /\ Len(recent_actions) = 3

-----------------------------------------------------------------------------
(* C12, as claimed: when a node raised, what solve hands to its caller     *)
(* holds the scratchpad the run had accumulated.                           *)
C12_Original ==
    (pc = "failed" /\ output # {} /\ scratchpad # <<>>)
        => /\ Has(output, "scratchpad")
           /\ Get(output, "scratchpad") = scratchpad

(* C12, amended: when a node raised, solve hands its caller the message    *)
(* and the class of the exception only (the command line) or status 500    *)
(* with the message (the API); the scratchpad is not part of either, while *)
(* a run that ended normally is handed over with its whole scratchpad.     *)
C12_ErrorOnly ==
    /\ (pc = "failed" /\ output # {}) =>
          /\ \/ /\ Keys(output) = {"error", "type"}
                /\ Get(output, "type") = error
             \/ /\ Keys(output) = {"status_code", "detail"}
                /\ Get(output, "status_code") = 500
          /\ ~Has(output, "scratchpad")
    /\ (pc = "done" /\ output # {}) => Get(output, "scratchpad") = scratchpad

\* the command line reported the KeyError of a repair after two acts
C12_Witness ==
    /\ pc = "failed"
    /\ Len(scratchpad) = 7
    /\ output = {<<"error", "'reroute_drone'">>, <<"type", "KeyError">>}

-----------------------------------------------------------------------------
(* C13, as claimed: every completed plan_node, act_node and reflect_node   *)
(* leaves the scratchpad strictly longer than it found it.                 *)
C13_Original ==
    [][(pc \in {"plan", "act", "reflect"} /\ pc' # pc /\ pc' # "failed")
          => Len(scratchpad') > Len(scratchpad)]_vars

(* C13, amended: the scratchpad never gets shorter; a completed plan_node  *)
(* adds two entries (thought, action), a completed act_node one (the       *)
(* observation), a reflect_node that queues a repair one (the repair       *)
(* action); a reflect_node that queues none (stop, continue, a repair      *)
(* discarded as a repeat, the forced stop) leaves the length as it was.    *)
C13_LengthStep ==
    /\ Len(scratchpad') >= Len(scratchpad)
    /\ Completed("plan") => Len(scratchpad') = Len(scratchpad) + 2
    /\ Completed("act") => Len(scratchpad') = Len(scratchpad) + 1
    /\ Completed("reflect") =>
          Len(scratchpad') = Len(scratchpad)
                               + (IF PendingRepair(collected_data') THEN 1 ELSE 0)

C13_LengthNeverShrinks == [][C13_LengthStep]_vars

\* after plan and act, a reflection saying continue left three entries
C13_Witness ==
    /\ pc = "plan"
    /\ Len(scratchpad) = 3
    /\ lastDecision = {{<<"stop", FALSE>>, <<"why", "keep going">>}}
    /\ LastReflection = {<<"stop", FALSE>>, <<"why", "keep going">>}

-----------------------------------------------------------------------------
(* C14: between nodes the step counter equals the number of action entries *)
(* of the scratchpad that are directly followed by the observation of that *)
(* action; a completed act_node adds one to it (also when it soft-fails or *)
(* executes a repair) and no other step changes it.                        *)
C14_Matches(a, o) ==
    LET tool == Strip(GetOr(a, "tool", ""))
        raw == IF GetOr(a, "arguments", {}) # {} THEN Get(a, "arguments")
               ELSE GetOr(a, "args", {})
    IN  tool \in TOOLS /\ o = Observe(tool, raw)

C14_Executed(sp) ==
    {i \in 1 .. Len(sp) - 1 :
        /\ Has(sp[i], "action")
        /\ Has(sp[i + 1], "observation")
        /\ C14_Matches(Get(sp[i], "action"), Get(sp[i + 1], "observation"))}

C14_CountStep ==
    /\ Completed("act") => Steps(collected_data') = Steps(collected_data) + 1
    /\ ~Completed("act") => Steps(collected_data') = Steps(collected_data)

C14_StepCount ==
    /\ [](Steps(collected_data) = Cardinality(C14_Executed(scratchpad)))
    /\ [][C14_CountStep]_vars

\* three acts were counted, one of them soft-failed, one executed a repair
C14_Witness ==
    /\ pc = "reflect"
    /\ Steps(collected_data) = 3
    /\ HasRepairEntry
    /\ \E i \in 1 .. Len(scratchpad) :
          Has(GetOr(scratchpad[i], "observation", {}), "error")
    /\ Cardinality(C14_Executed(scratchpad)) = 3

-----------------------------------------------------------------------------
(* C15: the scratchpad is append-only: every step keeps the entries it     *)
(* found, in their order; the thought, action and observation of an entry  *)
(* never change; an entry changes only when reflect_node stores its        *)
(* reflection on the entry that was last.                                  *)
C15_Content(e) == Pop(e, "reflection")

C15_AppendStep ==
    /\ Len(scratchpad') >= Len(scratchpad)
    /\ \A i \in 1 .. Len(scratchpad) :
          /\ C15_Content(scratchpad'[i]) = C15_Content(scratchpad[i])
          /\ scratchpad'[i] # scratchpad[i] =>
                /\ pc = "reflect"
                /\ i = Len(scratchpad)
                /\ Has(scratchpad'[i], "reflection")

C15_AppendOnly == [][C15_AppendStep]_vars

\* two reflections were stored, the second with a repair appended after it
C15_Witness ==
    /\ pc = "act"
    /\ Len(scratchpad) = 7
    /\ Keys(scratchpad[3]) = {"observation", "reflection"}
    /\ Keys(scratchpad[6]) = {"observation", "reflection"}
    /\ Keys(scratchpad[7]) = {"thought", "action"}

-----------------------------------------------------------------------------
(* C16: solved is false at the start; it changes only in reflect_node and  *)
(* only from false to true, hence at most once; no node starts once it is  *)
(* true.                                                                   *)
C16_SolvedStep ==
    /\ ~solved
    /\ solved' # solved => (pc = "reflect" /\ solved' /\ pc' = "done")
    /\ pc \in {"plan", "act", "reflect"}

C16_SolvedOnce == ~solved /\ [][C16_SolvedStep]_vars

\* the oracle said stop after the second act and the run ended solved
C16_Witness ==
    /\ pc = "done"
    /\ solved
    /\ Steps(collected_data) = 2
    /\ Steps(collected_data) < maxSteps
    /\ lastDecision = {{<<"stop", TRUE>>, <<"why", "resolved">>}}

-----------------------------------------------------------------------------
(* C17: pending_repair is set exactly while the last scratchpad entry is   *)
(* an action that reflect_node appended and act_node has not executed; it  *)
(* gets set only by a reflect_node whose decision carries a repair that    *)
(* differs from the last recorded action, is clear after every completed   *)
(* act_node, and is clear whenever plan_node is next or the run is done.   *)
C17_AwaitsRepair ==
    /\ scratchpad # <<>>
    /\ Keys(Last(scratchpad)) = {"thought", "action"}
    /\ Get(Last(scratchpad), "thought") = "repair"

C17_PendingInv ==
    /\ PendingRepair(collected_data) <=> C17_AwaitsRepair
    /\ pc \in {"plan", "done"} => ~PendingRepair(collected_data)

C17_PendingStep ==
    /\ (PendingRepair(collected_data') /\ ~PendingRepair(collected_data)) =>
          /\ Completed("reflect")
          /\ \E d \in lastDecision' :
                /\ GetOr(d, "repair_action", {}) # {}
                /\ \/ recent_actions = <<>>
                   \/ Action(Strip(GetOr(Get(d, "repair_action"), "tool_name", "")),
                             GetOr(Get(d, "repair_action"), "arguments", {}))
                         # Last(recent_actions)
    /\ Completed("act") => ~PendingRepair(collected_data')

C17_PendingExactlyWhileQueued == []C17_PendingInv /\ [][C17_PendingStep]_vars

\* a queued repair has just been executed: the flag is clear again
C17_Witness ==
    /\ pc = "reflect"
    /\ ~PendingRepair(collected_data)
    /\ Len(scratchpad) >= 5
    /\ GetOr(scratchpad[Len(scratchpad) - 1], "thought", "") = "repair"
    /\ Has(Last(scratchpad), "observation")

-----------------------------------------------------------------------------
(* C18: recent_actions never holds more than five actions; every          *)
(* completed plan_node and every reflect_node that queues a repair records *)
(* the action it appends at the end of the list, and no other step changes *)
(* the list; with five entries already there the oldest one is dropped and *)
(* the other four keep their order.                                        *)
C18_Recorded(sp) ==
    {p \in Get(Last(sp), "action") : p[1] \in {"tool", "args"}}

C18_PushStep ==
    IF Completed("plan") \/ (Completed("reflect") /\ PendingRepair(collected_data'))
    THEN /\ Has(Last(scratchpad'), "action")
         /\ recent_actions' =
               (IF Len(recent_actions) < 5 THEN recent_actions
                ELSE SubSeq(recent_actions, 2, 5)) \o <<C18_Recorded(scratchpad')>>
    ELSE recent_actions' = recent_actions

C18_RecentWindow == [](Len(recent_actions) <= 5) /\ [][C18_PushStep]_vars

C18_ActionEntries(sp) == {i \in 1 .. Len(sp) : Has(sp[i], "action")}

\* the sixth action of a run, a repair, pushed out the merchant lookup
C18_Witness ==
    /\ pc = "act"
    /\ PendingRepair(collected_data)
    /\ Cardinality(C18_ActionEntries(scratchpad)) = 6
    /\ Len(recent_actions) = 5
    /\ Get(recent_actions[1], "tool") = "check_traffic"
    /\ Get(recent_actions[2], "tool") = "contact_recipient_via_chat"
    /\ recent_actions[5] = C18_Recorded(scratchpad)

-----------------------------------------------------------------------------
(* C19: remember is idempotent on the collection: however often and in     *)
(* whatever order runs are submitted, a run that was stored has exactly    *)
(* one entry holding its summary, whose id is the digest of that summary;  *)
(* no two entries share an id or a document.                               *)
C19_Summary(run_dict) ==
    LET sp == IF Has(run_dict, "scratchpad") THEN Get(run_dict, "scratchpad") ELSE <<>>
        n == Len(sp)
    IN  {<<"problem", IF Has(run_dict, "goal") THEN Get(run_dict, "goal") ELSE "">>,
         <<"key_steps", [i \in 1 .. (IF n < 3 THEN n ELSE 3) |->
                           sp[i + (IF n < 3 THEN 0 ELSE n - 3)]]>>,
         <<"resolution", IF n = 0 THEN {} ELSE sp[n]>>}

C19_Stored == {b[1] : b \in {c \in BagToSet(remembered) : c[2] = "stored"}}

C19_OneEntryPerSummary ==
    /\ \A run_dict \in C19_Stored :
          Cardinality({e \in coll : e[3] = C19_Summary(run_dict)}) = 1
    /\ \A e \in coll : e[1] = <<"sha1", e[3]>>
    /\ \A e1, e2 \in coll : (e1[1] = e2[1] \/ e1[3] = e2[3]) => e1 = e2
    /\ \A e \in coll : \E run_dict \in C19_Stored : e[3] = C19_Summary(run_dict)

\* one run was stored twice and another run once: two entries
C19_Witness ==
    /\ \E b \in BagToSet(remembered) :
          b[2] = "stored" /\ CopiesIn(b, remembered) = 2
    /\ Cardinality(C19_Stored) = 2
    /\ Cardinality(coll) = 2

-----------------------------------------------------------------------------
(* C20: every oracle request makes at most two attempts; a second attempt  *)
(* is made exactly when the first ended in a read timeout; a read timeout  *)
(* of the second attempt is raised to the caller; any other failure, of    *)
(* the first or of the second attempt, is raised without another attempt;  *)
(* an attempt that succeeds ends the request.                              *)
C20_RequestOk(r) ==
    LET n == Len(r.attempts)
    IN  /\ n <= 2
        /\ n = 2 => r.attempts[1] = "ReadTimeout"
        /\ r.result = "pending" => r.attempts \in {<<>>, <<"ReadTimeout">>}
        /\ r.result # "pending" =>
              /\ n >= 1
              /\ r.attempts[1] = "ReadTimeout" => n = 2
              /\ r.result = (IF r.attempts[n] = "ok" THEN "returned"
                             ELSE r.attempts[n])

C20_AtMostOneRetry ==
    /\ \A k \in 1 .. Len(wire) : C20_RequestOk(wire[k])
    /\ \A k \in 1 .. Len(wire) - 1 : wire[k].result # "pending"
    /\ attempt \in 0 .. 2
    /\ attempt # 0 <=> (wire # <<>> /\ Last(wire).result = "pending")
    /\ attempt # 0 => attempt = Len(Last(wire).attempts) + 1

\* one request timed out twice, one was answered on the retry, one failed
\* on its first attempt with an HTTP error
C20_Witness ==
    /\ attempt = 0
    /\ wire = <<[attempts |-> <<"ReadTimeout", "ReadTimeout">>, result |-> "ReadTimeout"],
                [attempts |-> <<"ReadTimeout", "ok">>, result |-> "returned"],
                [attempts |-> <<"HTTPStatusError">>, result |-> "HTTPStatusError"]>>

-----------------------------------------------------------------------------
(* C21, as claimed: for every response text, a text that parses as an     *)
(* object as a whole gives that object; otherwise the result is the parse  *)
(* of the first balanced {...} substring, also when several objects or a   *)
(* later stray closing brace follow it; when neither parses, an error      *)
(* carrying the raw text is raised.                                        *)

\* the end of the balanced substring that opens at position i, 0 if none
C21_Depth(s, i, j) ==
    Cardinality({n \in i .. j : s[n] = "{"}) - Cardinality({n \in i .. j : s[n] = "}"})

C21_FirstBalanced(s) ==
    IF Positions(s, "{") = {} THEN <<>>
    ELSE LET i == Min(Positions(s, "{"))
             ends == {j \in i .. Len(s) : C21_Depth(s, i, j) = 0}
         IN  IF ends = {} THEN <<>> ELSE SubSeq(s, i, Min(ends))

C21_IsObject(v) == v # Invalid /\ v[1] = "dict"

C21_Claimed(text) ==
    IF C21_IsObject(loads(text)) THEN <<"returned", loads(text)>>
    ELSE IF C21_IsObject(loads(C21_FirstBalanced(text)))
         THEN <<"returned", loads(C21_FirstBalanced(text))>>
         ELSE <<"raised", "ValueError", text>>

C21_Original == reply # <<"none">> => reply = C21_Claimed(content)

-----------------------------------------------------------------------------
(* C22, as claimed: in offline mode, for every goal text, the run makes no *)
(* network call to the oracle, does not fail, and reaches done with a      *)
(* history that is not empty.                                              *)
C22_Original ==
    /\ [](wire = <<>> /\ attempt = 0)
    /\ [](pc # "failed")
    /\ <>(pc = "done" /\ scratchpad # <<>>)

-----------------------------------------------------------------------------
(* C23, as claimed: the runs of one process share no mutable state but the *)
(* memory store: the run of each request has the offline mode its own      *)
(* request asked for (that of the process's start when it asked for none), *)
(* whatever other requests asked for.                                      *)
C23_OwnMode(option) == IF option = "1" THEN "offline" ELSE "online"

C23_Original ==
    \A r \in 1 .. Len(handlers) :
        handlers[r].at = "done" => handlers[r].ran = C23_OwnMode(handlers[r].offline)

-----------------------------------------------------------------------------
(* C24: what a reflect_node does with a decision whose repair action       *)
(* differs from the last recorded action.                                  *)
C24_Name(d) == GetOr(Get(d, "repair_action"), "tool_name", "")
C24_Args(d) == GetOr(Get(d, "repair_action"), "arguments", {})

C24_Differs(d, tool) ==
    /\ GetOr(d, "repair_action", {}) # {}
    /\ \/ recent_actions = <<>>
       \/ {<<"tool", tool>>, <<"args", C24_Args(d)>>} # Last(recent_actions)

\* the repair is queued under the tool name tool
C24_Queued(d, tool) ==
    /\ scratchpad' =
          SubSeq(scratchpad, 1, Len(scratchpad) - 1)
          \o <<(Last(scratchpad) \cup {<<"reflection", d>>}),
               {<<"thought", "repair">>,
                <<"action", {<<"tool", tool>>, <<"args", C24_Args(d)>>,
                             <<"arguments", C24_Args(d)>>}>>}>>
    /\ recent_actions' =
          (IF Len(recent_actions) < 5 THEN recent_actions
           ELSE SubSeq(recent_actions, 2, 5))
          \o <<{<<"tool", tool>>, <<"args", C24_Args(d)>>}>>
    /\ collected_data' = collected_data \cup {<<"pending_repair", TRUE>>}
    /\ ~solved /\ ~solved'
    /\ pc' = "act"

\* the step after a repair was queued is an act_node that runs the repair
C24_RepairRuns ==
    /\ pc' = "reflect"
    /\ scratchpad' = Append(scratchpad, {<<"observation", Get(Last(scratchpad'), "observation")>>})
    /\ toolCall' # {} => Get(toolCall', "tool") = Strip(Get(Get(Last(scratchpad), "action"), "tool"))
    /\ toolCall' = {} => Get(Get(Last(scratchpad'), "observation"), "error") = "missing_required_args"
    /\ Steps(collected_data') = Steps(collected_data) + 1

(* C24, as claimed: exactly the repair action the decision carries is      *)
(* appended to the history and to recent_actions, pending_repair becomes   *)
(* true, solved stays false, and the next phase is an act that executes    *)
(* the repair, with no plan in between, also when the decision says stop.  *)
C24_OriginalStep ==
    /\ \A d \in lastDecision' :
          (Completed("reflect") /\ C24_Differs(d, C24_Name(d))) => C24_Queued(d, C24_Name(d))
    /\ (pc = "act" /\ PendingRepair(collected_data)) => C24_RepairRuns

C24_Original == [][C24_OriginalStep]_vars

(* C24, amended: the repair action, its tool name stripped of surrounding  *)
(* blanks, is compared with the last recorded action; when it differs it   *)
(* is appended to the history and to recent_actions under the stripped     *)
(* name, pending_repair becomes true, solved stays false and the next      *)
(* phase is act with no plan in between, also when the decision says stop; *)
(* that act runs the repair when its tool is registered and aborts the run *)
(* with a KeyError when it is not.                                         *)
C24_RepairStep ==
    /\ \A d \in lastDecision' :
          (Completed("reflect") /\ C24_Differs(d, Strip(C24_Name(d))))
              => C24_Queued(d, Strip(C24_Name(d)))
    /\ (pc = "act" /\ PendingRepair(collected_data)) =>
          IF Strip(Get(Get(Last(scratchpad), "action"), "tool")) \in TOOLS
          THEN C24_RepairRuns
          ELSE pc' = "failed" /\ error' = "KeyError"

C24_RepairQueuedAndRun == [][C24_RepairStep]_vars

\* a decision with stop = true and a drop-off repair under a padded name:
\* the drop-off was queued and executed
C24_Witness ==
    /\ pc = "reflect"
    /\ toolCall = {<<"tool", "suggest_safe_drop_off">>,
                   <<"args", {<<"address", "12 Main St">>}>>}
    /\ Len(scratchpad) >= 5
    /\ GetOr(scratchpad[Len(scratchpad) - 1], "thought", "") = "repair"
    /\ LET d == GetOr(scratchpad[Len(scratchpad) - 2], "reflection", {})
       IN  /\ GetOr(d, "stop", FALSE)
           /\ GetOr(d, "repair_action", {}) = RepairDrop
    /\ ~solved

-----------------------------------------------------------------------------
(* C25, as claimed: after every reflect_node the decision is stored on the *)
(* history record that holds the action it critiques, the one the act      *)
(* before it executed: for stop, continue, discarded and queued repair.    *)
C25_OriginalStep ==
    Completed("reflect") =>
        \A d \in lastDecision' :
            /\ Has(scratchpad'[Len(scratchpad) - 1], "action")
            /\ GetOr(scratchpad'[Len(scratchpad) - 1], "reflection", {}) = d

C25_Original == [][C25_OriginalStep]_vars

(* C25, amended: every reflect_node stores its reflection on the record    *)
(* that is last when it starts, which is the observation record of the     *)
(* preceding act; the action that was executed is in the record before it, *)
(* which gets no reflection. What is stored is the decision for stop,      *)
(* continue and a queued repair, and the override note in place of the     *)
(* decision for a discarded repair.                                        *)
C25_Discarded(d) ==
    /\ GetOr(d, "repair_action", {}) # {}
    /\ recent_actions # <<>>
    /\ {<<"tool", Strip(GetOr(Get(d, "repair_action"), "tool_name", ""))>>,
        <<"args", GetOr(Get(d, "repair_action"), "arguments", {})>>}
          = Last(recent_actions)

C25_Note ==
    {<<"stop", FALSE>>,
     <<"why", "Repair equals last action; continuing plan to avoid repeat loop.">>}

C25_StoredStep ==
    Completed("reflect") =>
        LET n == Len(scratchpad)
        IN  /\ n >= 2
            /\ Keys(scratchpad[n]) \in {{"observation"}, {"observation", "reflection"}}
            /\ Has(scratchpad[n - 1], "action")
            /\ scratchpad'[n - 1] = scratchpad[n - 1]
            /\ ~Has(scratchpad'[n - 1], "reflection")
            /\ Keys(scratchpad'[n]) = {"observation", "reflection"}
            /\ Get(scratchpad'[n], "observation") = Get(scratchpad[n], "observation")
            /\ \A d \in lastDecision' :
                  Get(scratchpad'[n], "reflection")
                      = (IF C25_Discarded(d) THEN C25_Note ELSE d)

C25_ReflectionOnObservation == [][C25_StoredStep]_vars

\* a run holding a continue decision, the decision of a queued repair and
\* the note of a discarded repair, each on an observation record
C25_Witness ==
    /\ pc = "plan"
    /\ Len(scratchpad) = 8
    /\ Has(scratchpad[3], "observation")
    /\ GetOr(GetOr(scratchpad[3], "reflection", {}), "why", "") = "keep going"
    /\ Has(scratchpad[6], "observation")
    /\ Has(GetOr(scratchpad[6], "reflection", {}), "repair_action")
    /\ GetOr(scratchpad[7], "thought", "") = "repair"
    /\ Has(scratchpad[8], "observation")
    /\ GetOr(scratchpad[8], "reflection", {}) = C25_Note
    /\ \E d \in lastDecision : GetOr(d, "repair_action", {}) # {}

-----------------------------------------------------------------------------
(* C26: a plan_node asks the oracle for a re-proposal once when, and only  *)
(* when, the candidate of its plan names a registered tool and equals one  *)
(* of the last two entries of recent_actions; with the planning request    *)
(* and at most one nudge it makes at most three oracle calls, and the      *)
(* answer to the re-proposal request is not checked again. The nudge was   *)
(* made when the plan and the history together miss a topic, and was not   *)
(* made when the history alone covers the three topics.                    *)
C26_Repeats(p) ==
    /\ GetOr(p, "tool_name", "") \in TOOLS
    /\ \E i \in 1 .. Len(recent_actions) :
          /\ i >= Len(recent_actions) - 1
          /\ recent_actions[i] = {<<"tool", Get(p, "tool_name")>>,
                                  <<"args", GetOr(p, "arguments", {})>>}

C26_Reproposals(p) == IF C26_Repeats(p) THEN 1 ELSE 0

C26_CallsStep ==
    Completed("plan") =>
        \A p \in lastPlan' :
            /\ oracleCalls' - C26_Reproposals(p) \in {1, 2}
            /\ oracleCalls' <= 3
            /\ must_consider \subseteq HistoryTopics(scratchpad)
                  => oracleCalls' = 1 + C26_Reproposals(p)
            /\ ~(must_consider \subseteq (HistoryTopics(scratchpad) \cup DictTopics(p)))
                  => oracleCalls' = 2 + C26_Reproposals(p)

C26_OneReproposal == [][C26_CallsStep]_vars

\* the third plan_node was given the merchant lookup again, which equals
\* the entry before the last of recent_actions: planning request, nudge
\* and re-proposal request
C26_Witness ==
    /\ pc = "act"
    /\ oracleCalls = 3
    /\ lastPlan = {PropMerchant}
    /\ Len(recent_actions) = 3
    /\ Get(recent_actions[1], "tool") = "get_merchant_status"
    /\ Get(recent_actions[2], "tool") = "check_traffic"

-----------------------------------------------------------------------------
(* C27: for every registered tool and every argument mapping, act_node     *)
(* passes on the provided arguments whose keys are declared parameters     *)
(* (filtered) and reports the provided keys that are not declared          *)
(* (ignored); the two are disjoint and together are the provided keys;     *)
(* missing holds the declared parameters without default that filtered     *)
(* lacks; the tool is invoked with exactly the filtered arguments, and     *)
(* only when nothing is missing.                                           *)
C27_Declared(tool) ==
    IF tool = "check_traffic" THEN {"route_id"}
    ELSE IF tool = "get_merchant_status" THEN {"merchant_id"}
    ELSE IF tool = "contact_recipient_via_chat" THEN {"order_id"}
    ELSE {"address"}

C27_ValidatorStep ==
    Completed("act") =>
        LET action == Get(Last(scratchpad), "action")
            tool == Get(action, "tool")
            provided == Get(action, "args")
            declared == C27_Declared(tool)
            obs == Get(Last(scratchpad'), "observation")
            ignored == IF Has(obs, "ignored_args") THEN Get(obs, "ignored_args") ELSE {}
        IN  IF declared \subseteq {p[1] : p \in provided}
            THEN /\ toolCall' # {}
                 /\ Get(toolCall', "tool") = tool
                 /\ Get(toolCall', "args") = {p \in provided : p[1] \in declared}
                 /\ ignored = {p[1] : p \in provided} \ declared
                 /\ Has(obs, "ignored_args") => ignored # {}
                 /\ {p[1] : p \in Get(toolCall', "args")} \cap ignored = {}
                 /\ {p[1] : p \in Get(toolCall', "args")} \cup ignored
                       = {p[1] : p \in provided}
                 /\ ~Has(obs, "error")
            ELSE /\ toolCall' = {}
                 /\ Get(obs, "error") = "missing_required_args"
                 /\ {Get(obs, "missing")[i] : i \in 1 .. Len(Get(obs, "missing"))}
                       = declared \ {p[1] : p \in provided}
                 /\ Get(obs, "provided_keys") = {p[1] : p \in provided}

C27_ValidatorContract == [][C27_ValidatorStep]_vars

\* the locker tool was invoked with the address alone, of four arguments
\* provided; the other three keys were reported
C27_Witness ==
    /\ pc = "reflect"
    /\ toolCall = {<<"tool", "find_nearby_locker">>,
                   <<"args", {<<"address", "9 Side St">>}>>}
    /\ GetOr(Get(Last(scratchpad), "observation"), "ignored_args", {})
          = {"route_id", "order_id", "eta"}
    /\ Get(Get(Last(scratchpad), "observation"), "locker") = "Locker-19 @ 2nd St"

-----------------------------------------------------------------------------
(* C28: while no repair has been queued, the first, second and third act   *)
(* of a run (as far as the run gets) invoke the merchant lookup, the       *)
(* traffic check and the recipient contact, in this order and with the     *)
(* gate's arguments, whatever the oracle proposed; every invocation of one *)
(* of the three tools writes the fact the gate tests for it, facts are     *)
(* never removed, and so in any run the gate selects each of the three at  *)
(* most once.                                                              *)
C28_Order ==
    <<{<<"tool", "get_merchant_status">>, <<"args", {<<"merchant_id", "M-77">>}>>},
      {<<"tool", "check_traffic">>, <<"args", {<<"route_id", "R-3">>}>>},
      {<<"tool", "contact_recipient_via_chat">>, <<"args", {<<"order_id", "O-123">>}>>}>>

\* which of the three the gate selects on facts with these keys, 0 if none
C28_Gate(keys) ==
    IF "prep_minutes" \notin keys /\ "merchant_id" \notin keys THEN 1
    ELSE IF "route_id" \notin keys \/ "status" \notin keys THEN 2
    ELSE IF "delivered_instructions" \notin keys THEN 3
    ELSE 0

\* the keys of the observations recorded before entry i
C28_FactsBefore(sp, i) ==
    UNION {Keys(Get(sp[j], "observation")) :
              j \in {k \in 1 .. i - 1 : Has(sp[k], "observation")}}

\* the entries plan_node appended while the gate selected the n-th action
C28_Selected(sp, n) ==
    {i \in 1 .. Len(sp) :
        /\ Has(sp[i], "action")
        /\ ~Has(sp[i], "thought")
        /\ C28_Gate(C28_FactsBefore(sp, i)) = n}

C28_NoRepairSoFar ==
    \A i \in 1 .. Len(scratchpad) : ~(GetOr(scratchpad[i], "thought", "") = "repair")

C28_OrderStep ==
    /\ (Completed("act") /\ C28_NoRepairSoFar /\ Steps(collected_data) < 3)
          => toolCall' = C28_Order[Steps(collected_data) + 1]
    /\ \A n \in 1 .. 3 :
          /\ (Completed("act") /\ toolCall' # {}
                /\ Get(toolCall', "tool") = Get(C28_Order[n], "tool"))
                => C28_Gate(Keys(collected_data')) # n
          /\ (C28_Gate(Keys(collected_data)) \notin 1 .. n)
                => (C28_Gate(Keys(collected_data')) \notin 1 .. n)
    /\ Keys(collected_data) \ {"pending_repair"} \subseteq Keys(collected_data')

C28_GateInv ==
    \A n \in 1 .. 3 :
        /\ Cardinality(C28_Selected(scratchpad, n)) <= 1
        /\ \A i \in C28_Selected(scratchpad, n) :
              {p \in Get(scratchpad[i], "action") : p[1] \in {"tool", "args"}}
                  = C28_Order[n]

C28_PrerequisiteOrder == []C28_GateInv /\ [][C28_OrderStep]_vars

\* five acts without a repair, the oracle proposing the drop-off at the
\* first plan_node: the three prerequisites were selected once each
C28_Witness ==
    /\ pc = "reflect"
    /\ C28_NoRepairSoFar
    /\ Steps(collected_data) = 5
    /\ \A n \in 1 .. 3 : Cardinality(C28_Selected(scratchpad, n)) = 1
    /\ C28_Selected(scratchpad, 3) = {8}
    /\ Cardinality(C28_Selected(scratchpad, 0)) = 2

-----------------------------------------------------------------------------
(* C29: in every state between two nodes recent_actions is, in order, the  *)
(* tool and args of the last min(5, n) action records of the history, n    *)
(* being the number of action records, those appended by plan_node and     *)
(* those appended for a queued repair alike; a repair discarded as a       *)
(* repeat has no record and no entry.                                      *)
C29_Records(sp) == {i \in 1 .. Len(sp) : Has(sp[i], "action")}

\* the m-th action record of the history
C29_Nth(sp, m) ==
    CHOOSE i \in C29_Records(sp) :
        Cardinality({j \in C29_Records(sp) : j <= i}) = m

C29_RecentIsTail ==
    LET n == Cardinality(C29_Records(scratchpad))
        k == IF n < 5 THEN n ELSE 5
    IN  /\ Len(recent_actions) = k
        /\ \A j \in 1 .. k :
              /\ recent_actions[j] \subseteq Get(scratchpad[C29_Nth(scratchpad, n - k + j)], "action")
              /\ Keys(recent_actions[j]) = {"tool", "args"}

C29_DiscardStep ==
    (Completed("reflect") /\ pc' = "plan")
        => /\ C29_Records(scratchpad') = C29_Records(scratchpad)
           /\ recent_actions' = recent_actions

C29_RecentMirrorsHistory == []C29_RecentIsTail /\ [][C29_DiscardStep]_vars

\* six action records, one of them a queued repair, after a repair was
\* discarded: the list holds the last five
C29_Witness ==
    /\ Cardinality(C29_Records(scratchpad)) = 6
    /\ Len(recent_actions) = 5
    /\ \E i \in C29_Records(scratchpad) : GetOr(scratchpad[i], "thought", "") = "repair"
    /\ \E i \in 1 .. Len(scratchpad) :
          GetOr(GetOr(scratchpad[i], "reflection", {}), "why", "")
              = "Repair equals last action; continuing plan to avoid repeat loop."
    /\ Get(recent_actions[1], "tool") = "check_traffic"

-----------------------------------------------------------------------------
(* C30: in every reachable state the step counter is at most               *)
(* max(1, budget), and so is the number of acts the run has completed,     *)
(* the history holding one observation record for each, executions of      *)
(* repairs and soft failures included; a run that ends under a budget of   *)
(* zero or less has made exactly one act. The history holds at most three  *)
(* records for each act.                                                   *)
C30_Limit == IF maxSteps < 1 THEN 1 ELSE maxSteps

C30_Acts == {i \in 1 .. Len(scratchpad) : Has(scratchpad[i], "observation")}

C30_WithinBudget ==
    /\ Steps(collected_data) <= C30_Limit
    /\ Cardinality(C30_Acts) <= C30_Limit
    /\ Cardinality(C30_Acts) = Steps(collected_data)
    /\ Len(scratchpad) <= 3 * C30_Limit
    /\ (pc = "done" /\ maxSteps < 1) => Cardinality(C30_Acts) = 1
    /\ pc = "done" => Cardinality(C30_Acts) >= 1

\* a budget of two was used up by the merchant lookup and a repair that
\* failed softly
C30_Witness ==
    /\ pc = "done"
    /\ maxSteps = 2
    /\ Steps(collected_data) = 2
    /\ GetOr(scratchpad[Len(scratchpad) - 1], "thought", "") = "repair"
    /\ GetOr(Get(Last(scratchpad), "observation"), "error", "") = "missing_required_args"
    /\ oracleCalls = 0

-----------------------------------------------------------------------------
(* C31: whenever a run is in done, solved is true, pending_repair is not   *)
(* set, the step counter is at least one, and the last record of the       *)
(* history is an observation record carrying a reflection that says stop   *)
(* and has no repair action.                                               *)
C31_DoneState ==
    pc = "done" =>
        /\ solved
        /\ ~Has(collected_data, "pending_repair")
        /\ Steps(collected_data) >= 1
        /\ scratchpad # <<>>
        /\ Keys(Last(scratchpad)) = {"observation", "reflection"}
        /\ Get(Get(Last(scratchpad), "reflection"), "stop") = TRUE
        /\ GetOr(Get(Last(scratchpad), "reflection"), "repair_action", {}) = {}
        /\ error = "none"

\* the oracle said stop after a queued repair had been executed, with
\* budget left
C31_Witness ==
    /\ pc = "done"
    /\ maxSteps = 5
    /\ Steps(collected_data) = 2
    /\ oracleCalls = 1
    /\ GetOr(scratchpad[Len(scratchpad) - 1], "thought", "") = "repair"
    /\ Get(Get(Last(scratchpad), "reflection"), "why") = "resolved"

-----------------------------------------------------------------------------
(* C32, as claimed: whatever keys the result of a tool holds, a key named  *)
(* like the step counter or like the pending flag included, the step       *)
(* counter after an act_node is its value before that act_node plus one.   *)
C32_CountStep ==
    Completed("act") => Steps(collected_data') = Steps(collected_data) + 1

====
